---- MODULE Spec2Model ----
(***************************************************************************)
(* Verification model of preprocess-gdl: the discovery/pairing engine      *)
(* (preprocess_glob.tile_list_glob, list_of_tiles_from_csv, the grouping   *)
(* of tiles into images) and the per-asset processing stages               *)
(* (PansharpRaster.pansharpen, gdal_8bit_rescale, rasterio_merge_tiles,    *)
(* gdal_split_band).                                                       *)
(*                                                                         *)
(* File names are sequences of one-character strings, so that the string   *)
(* operations of the code (str.replace, re.sub, os.path.commonprefix,      *)
(* difflib.get_close_matches) are computed as the code computes them.      *)
(***************************************************************************)
EXTENDS Integers, Sequences, FiniteSets, TLC

\* ------------------------------------------------------------------ bounds
\* Largest number of physical tiles of one acquisition (R1C1, R2C1, ...).
MaxTiles == 2

\* ------------------------------------------------------- program constants
\* difflib.get_close_matches(word, possibilities, n=3, cutoff=0.6): the
\* cutoff as the fraction CutoffNum / CutoffDen, the default of the call.
CutoffNum == 6
CutoffDen == 10

\* ------------------------------------------------------------ Python values
\* Python's None and a set value, kept apart from the string 'None'.
None == [some |-> FALSE, v |-> <<>>]
Some(x) == [some |-> TRUE, v |-> x]

\* str(x) of an optional path: str(None) is the four characters 'None'.
NoneStr == <<"N", "o", "n", "e">>
PyStr(o) == IF o.some THEN o.v ELSE NoneStr

\* ----------------------------------------------------------------- strings
\* The characters of the modelled names in ASCII order (string comparison
\* in Python is by code point).
Ascii == <<".", "/", "1", "2", "3", "4", "A", "B", "C", "E", "H", "I", "L", "M",
           "N", "P", "R", "S", "T", "U", "X", "Y", "_", "d", "e", "n", "o", "z">>
Ord(c) == CHOOSE i \in 1..Len(Ascii) : Ascii[i] = c

\* a < b for two strings, as Python compares str.
RECURSIVE StrLess(_, _)
StrLess(a, b) ==
    IF b = <<>> THEN FALSE
    ELSE IF a = <<>> THEN TRUE
    ELSE IF Head(a) = Head(b) THEN StrLess(Tail(a), Tail(b))
    ELSE Ord(Head(a)) < Ord(Head(b))

StartsWith(s, p) == Len(p) <= Len(s) /\ SubSeq(s, 1, Len(p)) = p

\* str.replace(old, new): every non-overlapping occurrence, left to right.
RECURSIVE Replace(_, _, _)
Replace(s, old, new) ==
    IF s = <<>> \/ old = <<>> THEN s
    ELSE IF StartsWith(s, old)
         THEN new \o Replace(SubSeq(s, Len(old) + 1, Len(s)), old, new)
         ELSE <<Head(s)>> \o Replace(Tail(s), old, new)

\* \w of the regular expressions: a letter, a digit or the underscore.
IsWord(c) == c \notin {".", "/"}

\* re.compile('_R\wC\w').sub('', s)
RECURSIVE SubRC(_)
SubRC(s) ==
    IF s = <<>> THEN s
    ELSE IF Len(s) >= 5 /\ s[1] = "_" /\ s[2] = "R" /\ IsWord(s[3])
            /\ s[4] = "C" /\ IsWord(s[5])
         THEN SubRC(SubSeq(s, 6, Len(s)))
         ELSE <<Head(s)>> \o SubRC(Tail(s))

\* PurePath.stem: the name without its last suffix (a leading dot is no suffix).
StemAt(s, i) == IF i <= 1 THEN s ELSE SubSeq(s, 1, i - 1)
Stem(s) == StemAt(s, IF \E i \in 1..Len(s) : s[i] = "."
                     THEN CHOOSE i \in 1..Len(s) : s[i] = "." /\ \A j \in (i+1)..Len(s) : s[j] # "."
                     ELSE 0)

\* os.path.commonprefix of two strings: character by character.
RECURSIVE CommonPrefix(_, _)
CommonPrefix(a, b) ==
    IF a = <<>> \/ b = <<>> \/ Head(a) # Head(b) THEN <<>>
    ELSE <<Head(a)>> \o CommonPrefix(Tail(a), Tail(b))

\* 'sep'.join(parts)
RECURSIVE Join(_, _)
Join(parts, sep) ==
    IF parts = <<>> THEN <<>>
    ELSE IF Len(parts) = 1 THEN parts[1]
    ELSE parts[1] \o sep \o Join(Tail(parts), sep)

\* s.split(c) for a one-character separator c: the list of fields.
RECURSIVE Split(_, _)
Split(s, c) ==
    IF \A i \in 1..Len(s) : s[i] # c THEN <<s>>
    ELSE LET i == CHOOSE k \in 1..Len(s) : s[k] = c /\ \A j \in 1..(k-1) : s[j] # c
         IN  <<SubSeq(s, 1, i - 1)>> \o Split(SubSeq(s, i + 1, Len(s)), c)

\* ------------------------------------------- difflib.SequenceMatcher.ratio
\* Length of the common run of a from i and b from j, inside [i, ahi) x [j, bhi).
RECURSIVE RunLen(_, _, _, _, _, _)
RunLen(a, b, i, j, ahi, bhi) ==
    IF i >= ahi \/ j >= bhi \/ a[i] # b[j] THEN 0
    ELSE 1 + RunLen(a, b, i + 1, j + 1, ahi, bhi)

\* find_longest_match(alo, ahi, blo, bhi): the longest block; of those the
\* one starting earliest in a; of those the one starting earliest in b.
\* (No junk: autojunk only acts on a second sequence of 200 or more.)
FindLongestMatch(a, b, alo, ahi, blo, bhi) ==
    LET Blocks == {<<i, j, RunLen(a, b, i, j, ahi, bhi)>> :
                      <<i, j>> \in {p \in (alo..(ahi-1)) \X (blo..(bhi-1)) : a[p[1]] = b[p[2]]}}
    IN  IF Blocks = {} THEN <<alo, blo, 0>>
        ELSE LET k == CHOOSE n \in {p[3] : p \in Blocks} : \A p \in Blocks : p[3] <= n
                 Longest == {p \in Blocks : p[3] = k}
                 i == CHOOSE n \in {p[1] : p \in Longest} : \A p \in Longest : n <= p[1]
                 j == CHOOSE n \in {p[2] : p \in {q \in Longest : q[1] = i}} :
                        \A p \in {q \in Longest : q[1] = i} : n <= p[2]
             IN  <<i, j, k>>

\* get_matching_blocks: the total size of the matching blocks, found by
\* recursing on the pieces left and right of the longest match.
RECURSIVE MatchSize(_, _, _, _, _, _)
MatchSize(a, b, alo, ahi, blo, bhi) ==
    LET Around(m) ==
            IF m[3] = 0 THEN 0
            ELSE m[3] + MatchSize(a, b, alo, m[1], blo, m[2])
                      + MatchSize(a, b, m[1] + m[3], ahi, m[2] + m[3], bhi)
    IN  IF alo >= ahi \/ blo >= bhi THEN 0
        ELSE Around(FindLongestMatch(a, b, alo, ahi, blo, bhi))

\* ratio() = 2.0 * matches / (len(a) + len(b)), as the fraction <<num, den>>
\* (1.0 when both are empty).
Ratio(a, b) ==
    IF Len(a) + Len(b) = 0 THEN <<1, 1>>
    ELSE <<2 * MatchSize(a, b, 1, Len(a) + 1, 1, Len(b) + 1), Len(a) + Len(b)>>

RatioGeq(r, s) == r[1] * s[2] >= s[1] * r[2]
RatioEq(r, s) == r[1] * s[2] = s[1] * r[2]

\* --------------------------------------------- difflib.get_close_matches
\* result: the (score, x) pairs of the possibilities whose ratio to word
\* reaches the cutoff.
Scored(word, possibilities) ==
    {p \in {<<Ratio(x, word), x>> : x \in possibilities} :
        RatioGeq(p[1], <<CutoffNum, CutoffDen>>)}

\* PairBefore as heapq.nsmallest would order the pairs: lower score first.
PairBefore_Smallest(p, q) ==
    \/ ~RatioGeq(p[1], q[1])
    \/ RatioEq(p[1], q[1]) /\ (p[2] = q[2] \/ StrLess(p[2], q[2]))

\* heapq.nlargest orders the (score, x) pairs: higher score first, and for
\* equal scores the greater string first.
PairBefore(p, q) ==
    \/ ~RatioGeq(q[1], p[1])
    \/ RatioEq(p[1], q[1]) /\ (p[2] = q[2] \/ StrLess(q[2], p[2]))

RECURSIVE NLargest(_, _)
NLargest(S, n) ==
    IF S = {} \/ n = 0 THEN <<>>
    ELSE LET top == CHOOSE p \in S : \A q \in S : PairBefore(p, q)
         IN  <<top[2]>> \o NLargest(S \ {top}, n - 1)

\* get_close_matches(word, possibilities) with the defaults n=3, cutoff=0.6:
\* the best matches, best first; empty when none reaches the cutoff.
MatchN == 3
get_close_matches(word, possibilities) ==
    NLargest(Scored(word, possibilities), MatchN)

\* -------------------------------------------------- names of the modelled tree
\* Image folders (the acquisition roots, two levels above a raster).
ImageFolders == {"A", "B"}
Digits == <<"1", "2", "3", "4">>
Slash == <<"/">>
ExtTif == <<".", "T">>
ExtXml == <<".", "X", "M", "L">>

MulDir == <<"I", "_", "M", "U", "L">>
PanDir == <<"I", "_", "P", "A", "N">>
PshDir == <<"I", "_", "P", "S", "H">>

\* Tile i of the multispectral, panchromatic and pansharpened rasters.
MulName(i) == <<"M", "_", "R", Digits[i], "C", "1">> \o ExtTif
PanName(i) == <<"P", "_", "R", Digits[i], "C", "1">> \o ExtTif
PshName(i) == <<"S", "_", "R", Digits[i], "C", "1">> \o ExtTif
\* A raster of the panchromatic directory that belongs to no tile, under an
\* id no tile has.
JunkName == <<"z", "z", "z", "z", "z", "z">> \o ExtTif
Junk == MaxTiles + 2
PanFileName(c) == IF c = Junk THEN JunkName ELSE PanName(c)

TileIds == 1..MaxTiles
PanCands == TileIds \cup {Junk}
Rasters == {"uint8", "uint16", "unreadable"}
\* The metadata manifest (XML) of an acquisition: not there, there but not
\* parsable, or there and parsable.
XmlStates == {"missing", "unreadable", "ok"}

\* The configured patterns, by key: both mul globs reach every raster of a
\* *_MUL directory and the pan directory by ../*_PAN; key 1 marks the rasters
\* by M / P, key 2 by X / Y (a marker the names of this tree do not carry).
PatternKeys == {1, 2}
mul_pan_str(k) == IF k = 1 THEN <<(<<"M">>), (<<"P">>)>> ELSE <<(<<"X">>), (<<"Y">>)>>

\* One acquisition on disk: the tiles in its *_MUL directory, the rasters in
\* its *_PAN directory, whether the multispectral manifest exists, what
\* opening a multispectral raster gives, and how many tiles the two manifests list.
NoAcq == [mul |-> {}, pan |-> {}, xml |-> "missing", raster |-> "uint8",
          mulManifest |-> 1, panManifest |-> 1]
Acqs == {NoAcq} \cup
        [mul : (SUBSET TileIds) \ {{}}, pan : SUBSET PanCands, xml : XmlStates,
         raster : Rasters, mulManifest : TileIds, panManifest : TileIds]
\* A complete single-tile 8-bit acquisition.
GoodAcq == [mul |-> {1}, pan |-> {1}, xml |-> "ok", raster |-> "uint8",
            mulManifest |-> 1, panManifest |-> 1]

\* One already-pansharpened acquisition: its tiles (up to MaxTiles + 1), what
\* opening them gives, whether its manifest exists and how many tiles it lists.
NoPsh == [tiles |-> {}, raster |-> "uint8", xml |-> "missing", manifest |-> 1]
PshTileIds == 1..(MaxTiles + 1)
Pshs == {NoPsh} \cup
        [tiles : {1..n : n \in PshTileIds}, raster : Rasters, xml : XmlStates,
         manifest : PshTileIds]

\* The directory trees: folder A holds either a mul/pan acquisition or an
\* already-pansharpened one, folder B is absent or complete.
EmptyTree == [A |-> NoAcq, B |-> NoAcq, psh |-> NoPsh]
Trees == {[A |-> a, B |-> b, psh |-> NoPsh] : a \in Acqs, b \in {NoAcq, GoodAcq}}
         \cup {[A |-> NoAcq, B |-> b, psh |-> p] : p \in Pshs, b \in {NoAcq, GoodAcq}}

\* ------------------------------------------------------------------ paths
\* a / b of pathlib: an absolute right operand replaces the left one.
PathJoin(a, b) == IF b # <<>> /\ Head(b) = "/" THEN b ELSE a \o Slash \o b

\* The last index of character c in p, 0 when p has none.
LastIndexOf(p, c) ==
    LET I == {i \in 1..Len(p) : p[i] = c}
    IN  IF I = {} THEN 0 ELSE CHOOSE i \in I : \A j \in I : j <= i
\* PurePath.parent and PurePath.name.
ParentAt(p, i) == IF i = 0 THEN <<".">> ELSE IF i = 1 THEN Slash ELSE SubSeq(p, 1, i - 1)
Parent(p) == ParentAt(p, LastIndexOf(p, "/"))
Name(p) == SubSeq(p, LastIndexOf(p, "/") + 1, Len(p))
\* PurePath.parents[1]: the parent of the parent.
Parents1(p) == Parent(Parent(p))
\* p.relative_to(d) for a p below d.
RelativeTo(p, d) == SubSeq(p, Len(d) + 2, Len(p))

\* base_dir, an absolute path, and the manifest names of the tree.
BaseDir == <<"/", "d">>
MulXmlName == <<"M">> \o ExtXml
PshXmlName == <<"S">> \o ExtXml

\* The rasters and manifests of tree t, as paths relative to base_dir.
MulFiles(t) == UNION {{PathJoin(<<f>>, PathJoin(MulDir, MulName(i))) : i \in t[f].mul} : f \in ImageFolders}
PanFilesOf(t, f) == {PathJoin(<<f>>, PathJoin(PanDir, PanFileName(c))) : c \in t[f].pan}
PshFiles(t) == {PathJoin(<<"A">>, PathJoin(PshDir, PshName(i))) : i \in t.psh.tiles}
XmlFiles(t) == {PathJoin(<<f>>, PathJoin(MulDir, MulXmlName)) : f \in {g \in ImageFolders : t[g].xml # "missing"}}
               \cup (IF t.psh.xml # "missing" THEN {PathJoin(<<"A">>, PathJoin(PshDir, PshXmlName))} ELSE {})
AllFiles(t) == MulFiles(t) \cup UNION {PanFilesOf(t, f) : f \in ImageFolders}
               \cup PshFiles(t) \cup XmlFiles(t)

\* The directories of tree t (absolute), those the call made included.
TreeDirs(t, made) ==
    {BaseDir} \cup made
    \cup UNION {{PathJoin(BaseDir, Parent(p)), PathJoin(BaseDir, Parents1(p))} : p \in AllFiles(t)}

\* utils.validate_file_exists(path): path, given relative to the working
\* directory base_dir or absolute below it, is a file.
validate_file_exists(t, p) ==
    IF StartsWith(p, BaseDir \o Slash) THEN RelativeTo(p, BaseDir) \in AllFiles(t)
    ELSE p \in AllFiles(t)

\* rasterio_raster_reader(path).meta["dtype"], or "unreadable" when opening
\* raises RasterioIOError.
RasterOf(t, p) ==
    IF p \in PshFiles(t) THEN t.psh.raster ELSE t[Parents1(p)[1]].raster

\* --------------------------------------------------------- the work units
\* preprocess_glob.TileInfo. Optional fields are None or Some(value).
TileInfo(process_steps, dtype, image_folder, mul_pan_patern, mul_tile, pan_tile, psh_tile, prep_folder, last_processed_fp, mul_xml) ==
    [parent_folder |-> BaseDir, process_steps |-> process_steps, dtype |-> dtype,
     image_folder |-> image_folder, mul_pan_patern |-> mul_pan_patern,
     mul_tile |-> mul_tile, pan_tile |-> pan_tile, psh_tile |-> psh_tile,
     prep_folder |-> prep_folder, last_processed_fp |-> last_processed_fp,
     mul_xml |-> mul_xml, errors |-> None]

\* preprocess_glob.ImageInfo as validation.main builds it from a key tuple.
ImageInfo(key) ==
    [parent_folder |-> key[1], image_folder |-> key[2], prep_folder |-> key[3],
     tile_list |-> <<>>, merge_img_fp |-> None, band_file_list |-> <<>>,
     mul_xml |-> key[4], errors |-> None]

\* ------------------------------------------- tile_list_glob, configuration
\* The glob pair and the marker pair of pattern key k, as line 109 pairs them.
MulGlob == <<"*", "/", "*", "_", "M", "U", "L", "/", "*">>
PanGlob == <<".", ".", "/", "*", "_", "P", "A", "N">>
mul_pan_glob(k) == <<MulGlob, PanGlob>>
mul_pan_info(k) == <<mul_pan_glob(k), mul_pan_str(k)>>

\* The configurations: mul_pan_glob and mul_pan_str are given as mappings
\* from pattern keys (shape "mapping") or as lists (shape "list", the keys
\* then being the positions 1..n); out_csv is "" or the name of a csv file;
\* psh_glob is empty or holds one pattern.
Configs ==
    {c \in [shape : {"mapping", "list"}, globKeys : SUBSET PatternKeys,
            strKeys : SUBSET PatternKeys, out_csv : {"", "csv"}, psh_glob : BOOLEAN] :
        c.shape = "list" =>
            /\ c.globKeys \in {{}, {1}, {1, 2}}
            /\ c.strKeys \in {{}, {1}, {1, 2}}}

\* AssertLengths with the assertion of line 105 left out.
AssertLengths_Absent(c) == TRUE

\* Line 105: assert len(mul_pan_glob) == len(mul_pan_str)
AssertLengths(c) == Cardinality(c.globKeys) = Cardinality(c.strKeys)

\* Line 109: [[tuple(mul_pan_glob[x]), tuple(mul_pan_str[x])] for x in mul_pan_glob].
\* x runs over the keys of a mapping, and over the elements of a list: an
\* element of a list is no list index (TypeError), a key mul_pan_str lacks is
\* a KeyError. "ok" when the list is built.
InfoListError(c) ==
    IF c.globKeys = {} THEN "ok"
    ELSE IF c.shape = "list" THEN "TypeError"
    ELSE IF c.globKeys \subseteq c.strKeys THEN "ok"
    ELSE "KeyError"

\* The keys of mul_pan_info_list in order.
RECURSIVE KeyList(_)
KeyList(K) == IF K = {} THEN <<>>
              ELSE LET k == CHOOSE x \in K : \A y \in K : x <= y
                   IN  <<k>> \o KeyList(K \ {k})

\* --------------------------------------- tile_list_glob, one mul candidate
\* Lines 137-140.
image_folder_of(raster) == Parents1(raster)
raster_rel(raster) == RelativeTo(raster, image_folder_of(raster))

\* Lines 149-151 and 164-170: the panchromatic candidates of the glob,
\* relative to the image folder.
pan_rasters_str(t, mul_raster) ==
    {RelativeTo(p, image_folder_of(mul_raster)) : p \in PanFilesOf(t, image_folder_of(mul_raster)[1])}

\* sorted(...)[0] of a non-empty set of strings.
First(S) == CHOOSE x \in S : \A y \in S : x = y \/ StrLess(x, y)

\* Line 160.
pan_best_guess(mul_raster, k) ==
    Replace(Name(mul_raster), mul_pan_str(k)[1], mul_pan_str(k)[2])
\* Line 162.
pan_best_guess_rel_path(t, mul_raster, k) ==
    PathJoin(Parent(First(pan_rasters_str(t, mul_raster))), pan_best_guess(mul_raster, k))
\* Line 172, before the [0].
pan_matches(t, mul_raster, k) ==
    get_close_matches(pan_best_guess_rel_path(t, mul_raster, k), pan_rasters_str(t, mul_raster))

\* Path(s): a trailing slash is dropped.
AsPath(s) == IF Len(s) > 1 /\ s[Len(s)] = "/" THEN SubSeq(s, 1, Len(s) - 1) ELSE s
\* p.resolve() of a relative p: against the working directory, base_dir.
Resolve(p) == PathJoin(BaseDir, p)
PREP == <<"P", "R", "E", "P">>
\* Lines 193-196.
output_path(t, made, mul_rel, pan_rel) ==
    LET common_prefix == AsPath(CommonPrefix(Resolve(Parent(mul_rel)), Resolve(Parent(pan_rel))))
    IN  IF common_prefix \in TreeDirs(t, made) THEN PathJoin(common_prefix, PREP)
        ELSE common_prefix \o PREP

\* Lines 200-202.
mul_process_steps(dtype) == IF dtype # "uint8" THEN <<"psh", "scale">> ELSE <<"psh">>

\* Lines 204-206 (and 254-256): the manifest beside the raster.
mul_xml_of(image_folder, rel) ==
    PathJoin(PathJoin(PathJoin(BaseDir, image_folder), Parent(rel)),
             SubRC(Stem(Name(rel))) \o ExtXml)

\* What handling one multispectral candidate comes to (lines 137-221, up to
\* the append): the kind of outcome, for kind "tile" the record built, and
\* the directory line 198 makes (output_prep_path.parent, reached once the
\* raster was opened).
\*   missing_pan      lines 152-158, warning and continue
\*   IndexError       line 172, get_close_matches(...) is empty and [0] raises
\*   no_panchro       lines 173-177, warning and continue
\*   RasterioIOError  lines 181-185, warning and continue
\*   no_xml           lines 207-211, warning and continue
\*   tile             lines 214-220
NoTile == TileInfo(<<>>, "", <<>>, None, None, None, None, None, None, None)
Skip(kind, mk) == [kind |-> kind, tile |-> NoTile, mk |-> mk]

\* Lines 159-220: the candidate once its panchromatic glob found something.
MulPaired(t, made, mul_raster, k) ==
    LET Paired(image_folder, mul_raster_rel, pan_raster_rel, dtype, mul_xml, out_path) ==
            IF ~validate_file_exists(t, PathJoin(image_folder, pan_raster_rel))
            THEN Skip("no_panchro", None)
            ELSE IF dtype = "unreadable" THEN Skip("RasterioIOError", None)
            ELSE IF ~validate_file_exists(t, mul_xml)
                 THEN Skip("no_xml", Some(Parent(PathJoin(PathJoin(BaseDir, image_folder), out_path))))
            ELSE [kind |-> "tile",
                  tile |-> TileInfo(mul_process_steps(dtype), dtype, image_folder,
                                    Some(mul_pan_info(k)), Some(mul_raster_rel),
                                    Some(pan_raster_rel), None, Some(out_path),
                                    None, Some(mul_xml)),
                  mk |-> Some(Parent(PathJoin(PathJoin(BaseDir, image_folder), out_path)))]
        Matched(image_folder, mul_raster_rel, matches) ==
            IF matches = <<>> THEN Skip("IndexError", None)
            ELSE Paired(image_folder, mul_raster_rel, matches[1], RasterOf(t, mul_raster),
                        mul_xml_of(image_folder, mul_raster_rel),
                        output_path(t, made, mul_raster_rel, matches[1]))
    IN  Matched(image_folder_of(mul_raster), raster_rel(mul_raster),
                pan_matches(t, mul_raster, k))

\* MulOutcome without the check of lines 152-158: pan_rasters_glob[0] of
\* line 162 then raises IndexError on the empty list.
MulOutcome_NoEmptyCheck(t, made, mul_raster, k) ==
    IF pan_rasters_str(t, mul_raster) = {} THEN Skip("IndexError", None)
    ELSE MulPaired(t, made, mul_raster, k)

\* Lines 137-220.
MulOutcome(t, made, mul_raster, k) ==
    IF pan_rasters_str(t, mul_raster) = {} THEN Skip("missing_pan", None)
    ELSE MulPaired(t, made, mul_raster, k)

\* Path.mkdir(exist_ok=True) on directory d, the directories being dirs.
MkdirResult(dirs, d) ==
    IF d \in dirs THEN "exists"
    ELSE IF Parent(d) \in dirs THEN "created"
    ELSE "FileNotFoundError"

\* ------------------------------ tile_list_glob, one pansharpened candidate
\* Line 246.
psh_output_path(psh_rel) ==
    LET parts == Split(Parent(psh_rel), "_")
    IN  Join(SubSeq(parts, 1, Len(parts) - 1), <<"_">>) \o <<"_">> \o PREP

\* Lines 262-264.
psh_process_steps(dtype) == IF dtype # "uint8" THEN <<"scale">> ELSE <<>>

\* Lines 233-271, up to the append: RasterioIOError (continue), no_xml
\* (continue, after the prep directory was made, lines 248-249) or tile.
PshOutcome(t, psh_raster) ==
    LET Opened(psh_dtype, image_folder, psh_raster_rel, mul_xml, out_path) ==
            IF psh_dtype = "unreadable" THEN Skip("RasterioIOError", None)
            ELSE IF ~validate_file_exists(t, mul_xml)
                 THEN Skip("no_xml", Some(PathJoin(PathJoin(BaseDir, image_folder), out_path)))
            ELSE [kind |-> "tile",
                  tile |-> TileInfo(psh_process_steps(psh_dtype), psh_dtype, image_folder,
                                    None, None, None, Some(psh_raster_rel), Some(out_path),
                                    Some(PathJoin(PathJoin(BaseDir, image_folder), psh_raster_rel)),
                                    Some(mul_xml)),
                  mk |-> Some(PathJoin(PathJoin(BaseDir, image_folder), out_path))]
    IN  Opened(RasterOf(t, psh_raster), image_folder_of(psh_raster), raster_rel(psh_raster),
               mul_xml_of(image_folder_of(psh_raster), raster_rel(psh_raster)),
               psh_output_path(raster_rel(psh_raster)))

\* ------------------------------------------------------- the csv manifest
\* str(t) of a tuple of two strings: ('x', 'y').
StrPair(pair) ==
    <<"(", "'">> \o pair[1] \o <<"'", ",", " ", "'">> \o pair[2] \o <<"'", ")">>

\* ",".join(l) of a list of strings.
CommaJoin(l) == Join(l, <<",">>)

\* CsvLogger.tile_to_row(tile): ten strings. A step name or a datatype is one
\* element of its string; paths and patterns are spelled character by character.
tile_to_row(tile) ==
    <<PyStr(Some(tile.parent_folder)),
      CommaJoin([i \in 1..Len(tile.process_steps) |-> <<tile.process_steps[i]>>]),
      <<tile.dtype>>,
      tile.image_folder,
      CommaJoin([i \in 1..Len(tile.mul_pan_patern.v) |-> StrPair(tile.mul_pan_patern.v[i])]),
      PyStr(tile.mul_tile), PyStr(tile.pan_tile), PyStr(tile.psh_tile),
      PyStr(tile.prep_folder), PyStr(tile.last_processed_fp)>>

\* Lines 63-66: row != 'None' compares the whole row, a list, with a str:
\* a list is never equal to a str.
RowIsNoneStr(row) == FALSE
PathOrNone(row, i) == IF ~RowIsNoneStr(row) THEN Some(row[i]) ELSE None

\* Lines 62-73: the TileInfo rebuilt from one row (row[i] of the code is
\* row[i + 1] here). The fields of process_steps are step names again.
StepOf(field) == IF field = <<>> THEN "" ELSE field[1]
tile_from_row(row) ==
    LET fields == Split(row[2], ",")
    IN  [parent_folder |-> row[1],
         process_steps |-> [i \in 1..Len(fields) |-> StepOf(fields[i])],
         dtype |-> row[3][1], image_folder |-> row[4],
         mul_pan_patern |-> Some(Split(row[5], ",")),
         mul_tile |-> PathOrNone(row, 6), pan_tile |-> PathOrNone(row, 7),
         psh_tile |-> PathOrNone(row, 8), prep_folder |-> Some(row[9]),
         last_processed_fp |-> PathOrNone(row, 10), mul_xml |-> None, errors |-> None]

\* list_of_tiles_from_csv(path): one TileInfo per row.
list_of_tiles_from_csv(rows) == [i \in 1..Len(rows) |-> tile_from_row(rows[i])]

\* ------------------------------------------------ grouping tiles into images
\* validation.main, lines 64-68: one ImageInfo per distinct key tuple.
TileKey(tile) == <<tile.parent_folder, tile.image_folder, tile.prep_folder, tile.mul_xml>>
unique_values(tile_list) == {TileKey(tile_list[i]) : i \in 1..Len(tile_list)}
\* One ImageInfo per image folder, whatever the prep folder and the manifest.
GroupImages_ByFolder(tile_list) ==
    {ImageInfo(<<key[1], key[2], None, None>>) : key \in unique_values(tile_list)}
GroupImages(tile_list) == {ImageInfo(key) : key \in unique_values(tile_list)}

\* ------------------------------------------------- the processing stages
\* Largest number of bands a manifest lists.
MaxBands == 2

\* The error a stage returns beside its path: Python's None, a list of
\* messages, or str(list), the text of such a list ('[]' for the empty one).
ErrNone == [repr |-> "None", msgs |-> <<>>]
ErrList(msgs) == [repr |-> "list", msgs |-> msgs]
ErrStr(msgs) == [repr |-> "str(list)", msgs |-> msgs]
\* One message as a plain str.
ErrText(m) == [repr |-> "str", msgs |-> <<m>>]

\* bool(errors), as a caller's "if errors:" takes it: None and the empty
\* list are falsy; str(list) is at least the two characters '[]', and a
\* message is not empty: both truthy.
Truthy(errors) ==
    IF errors.repr = "None" THEN FALSE
    ELSE IF errors.repr = "list" THEN errors.msgs # <<>>
    ELSE TRUE

EndsWith(s, p) == Len(p) <= Len(s) /\ SubSeq(s, Len(s) - Len(p) + 1, Len(s)) = p
ExtTIF == <<".", "T", "I", "F">>
Exttif == <<".", "t", "i", "f">>

\* parent_folder / image_folder / rel, and the same below the prep folder.
UnitPath(u, rel) == PathJoin(PathJoin(u.parent_folder, u.image_folder), rel)
PrepPath(u, name) == PathJoin(UnitPath(u, u.prep_folder.v), name)

\* The pansharpening methods: an OTB one, a numpy one, one not implemented.
Methods == {"otb-bayes", "brovey", "nearest"}
pansharp_method(method) == IF method = "otb-bayes" THEN "bayes" ELSE method

\* pansharpen, lines 225-230: the name of the output. A datatype and a
\* method name are one element of the name.
output_psh_path(tile_info, method) ==
    LET Named(pan_raster_splits) ==
            pan_raster_splits[1] \o <<"-", "P", "S", "H", "-", pansharp_method(method), "-">>
            \o pan_raster_splits[Len(pan_raster_splits)] \o <<"_", tile_info.dtype>> \o ExtTIF
    IN  PrepPath(tile_info, Named(Split(Stem(Name(tile_info.pan_tile.v)),
                                        tile_info.mul_pan_patern.v[2][2][1])))

\* What a stage returns and does: ret is "None" for a bare return and
\* "raise" for an exception that leaves the stage and "tuple" otherwise,
\* path and errors the pair returned, files the files
\* after the call, calls the external calls made.
StageResult(ret, path, errors, files, calls) ==
    [ret |-> ret, path |-> path, errors |-> errors, files |-> files, calls |-> calls]

\* pansharpen, lines 221-275, on the files fs; backend is what the backend
\* does when called: "ok" (an OTB backend given both inputs writes the
\* output), "RuntimeError", "ImportError", "no_output". The numpy backend
\* opens both inputs (rasterio.open raises on a missing one, and nothing
\* catches it) and writes no file. With dry_run the backend is not called
\* (lines 246 and 264); the import of the numpy backend still happens.
pansharpen(tile_info, method, dry_run, overwrite, fs, backend) ==
    LET Run(multispectral, panchromatic, out) ==
            IF ~(multispectral \in fs \/ panchromatic \in fs)
            THEN StageResult("None", <<>>, ErrNone, fs, {})
            ELSE IF out \in fs /\ ~overwrite
            THEN StageResult("tuple", out, ErrList(<<>>), fs, {})
            ELSE IF method = "otb-bayes"
            THEN IF dry_run
                 THEN StageResult("tuple", out,
                                  ErrStr(IF out \in fs THEN <<>> ELSE <<"psh_fail">>), fs, {})
                 ELSE IF backend = "RuntimeError"
                 THEN StageResult("None", <<>>, ErrNone, fs, {<<"otb_pansharp", out>>})
                 ELSE IF out \in fs
                         \/ (backend = "ok" /\ multispectral \in fs /\ panchromatic \in fs)
                 THEN StageResult("tuple", out, ErrStr(<<>>), fs \cup {out},
                                  {<<"otb_pansharp", out>>})
                 ELSE StageResult("tuple", out, ErrStr(<<"psh_fail">>), fs,
                                  {<<"otb_pansharp", out>>})
            ELSE IF method = "brovey"
            THEN IF backend = "ImportError"
                 THEN StageResult("None", <<>>, ErrNone, fs, {})
                 ELSE IF dry_run
                 THEN StageResult("tuple", out,
                                  ErrStr(IF out \in fs THEN <<>> ELSE <<"psh_fail">>), fs, {})
                 ELSE IF ~(multispectral \in fs /\ panchromatic \in fs)
                 THEN StageResult("raise", <<>>, ErrNone, fs, {<<"pansharp_numpy", out>>})
                 ELSE StageResult("tuple", out,
                                  ErrStr(IF out \in fs THEN <<>> ELSE <<"psh_fail">>),
                                  fs, {<<"pansharp_numpy", out>>})
            ELSE StageResult("tuple", out,
                             ErrStr(IF out \in fs THEN <<"not_impl">>
                                    ELSE <<"not_impl", "psh_fail">>), fs, {})
    IN  Run(UnitPath(tile_info, tile_info.mul_tile.v),
            UnitPath(tile_info, tile_info.pan_tile.v),
            output_psh_path(tile_info, method))

\* gdal_8bit_rescale, lines 288-293: the name of the 8-bit copy.
rescale_outfile(tile_info) ==
    LET Named(stem) ==
            IF EndsWith(stem, <<"_", tile_info.dtype>>)
            THEN Replace(stem, <<"_", tile_info.dtype>>, <<"_", "uint8">> \o Exttif)
            ELSE stem \o <<"_", "uint8">> \o Exttif
    IN  PrepPath(tile_info, Named(Stem(Name(tile_info.last_processed_fp.v))))

\* gdal_8bit_rescale, lines 288-308; translate is what gdal.Translate does:
\* "ok" (writes the output of an input that exists), "raise", "no_output"
\* (returns without an output and without raising).
gdal_8bit_rescale(tile_info, overwrite, fs, translate) ==
    LET Run(infile, outfile) ==
            IF outfile \in fs /\ ~overwrite
            THEN StageResult("tuple", outfile, ErrNone, fs, {})
            ELSE IF translate = "raise"
            THEN StageResult("tuple", outfile, ErrText("could_not_scale"), fs,
                             {<<"gdal.Translate", outfile>>})
            ELSE StageResult("tuple", outfile, ErrNone,
                             IF translate = "ok" /\ infile \in fs THEN fs \cup {outfile} ELSE fs,
                             {<<"gdal.Translate", outfile>>})
    IN  Run(tile_info.last_processed_fp.v, rescale_outfile(tile_info))

\* re.compile('R\wC\w').sub('Merge', s)
RECURSIVE SubMerge(_)
SubMerge(s) ==
    IF s = <<>> THEN s
    ELSE IF Len(s) >= 4 /\ s[1] = "R" /\ IsWord(s[2]) /\ s[3] = "C" /\ IsWord(s[4])
         THEN <<"M", "e", "r", "g", "e">> \o SubMerge(SubSeq(s, 5, Len(s)))
         ELSE <<Head(s)>> \o SubMerge(Tail(s))

\* rasterio_merge_tiles, lines 322-324: the name of the merged raster.
merge_outfile(image_info) ==
    PrepPath(image_info, SubMerge(Stem(Name(image_info.tile_list[1]))) \o Exttif)

\* rasterio_merge_tiles, lines 321-350; merge is what opening, merging and
\* writing do: "ok" (possible when every tile exists) or "raise".
rasterio_merge_tiles(image_info, overwrite, fs, merge) ==
    LET Run(outfile) ==
            IF outfile \in fs /\ ~overwrite
            THEN StageResult("tuple", outfile, ErrNone, fs, {})
            ELSE IF merge = "ok" /\ \A i \in 1..Len(image_info.tile_list) :
                                        image_info.tile_list[i] \in fs
            THEN StageResult("tuple", outfile, ErrNone, fs \cup {outfile},
                             {<<"rasterio.merge", outfile>>})
            ELSE StageResult("tuple", outfile, ErrText("could_not_merge"), fs,
                             {<<"rasterio.merge", outfile>>})
    IN  Run(merge_outfile(image_info))

\* The manifest of an image as get_band_order finds it: missing (or not
\* parsable), or listing some BAND_ tags (possibly none).
Manifests == {[state |-> "missing", bands |-> <<>>]}
             \cup {[state |-> "parsed", bands |-> SubSeq(<<"BAND_B", "BAND_G", "BAND_R", "BAND_N">>, 1, n)]
                      : n \in 0..MaxBands}

\* get_band_order, lines 362-373: ET.parse raises on a file that is missing
\* or not parsable; no BAND_ tag is an error message.
get_band_order(manifest) ==
    IF manifest.state # "parsed" THEN [raised |-> TRUE, l_band_order |-> <<>>, err_msg |-> ErrNone]
    ELSE [raised |-> FALSE, l_band_order |-> manifest.bands,
          err_msg |-> IF manifest.bands = <<>> THEN ErrText("no_band_order") ELSE ErrNone]

\* gdal_split_band, lines 393-394: the file of band elem.
BandFile(image, elem) ==
    PrepPath(image, Stem(Name(image.merge_img_fp.v)) \o <<"_", elem>> \o Exttif)

\* gdal_split_band, lines 391-410: the loop from band number b on, with the
\* list and the errors so far. translate[b] is what gdal.Translate does for
\* band b. A band file that exists (overwrite off) ends the call at line 398
\* with that one path.
RECURSIVE SplitLoop(_, _, _, _, _, _, _, _)
SplitLoop(image, overwrite, bands, b, list_band_file, error, st, translate) ==
    IF b > Len(bands) THEN StageResult("tuple", list_band_file, ErrList(error), st.files, st.calls)
    ELSE LET Band(out_filepath) ==
                IF out_filepath \in st.files /\ ~overwrite
                THEN StageResult("tuple", <<out_filepath>>, ErrList(error), st.files, st.calls)
                ELSE SplitLoop(image, overwrite, bands, b + 1,
                               Append(list_band_file, out_filepath),
                               IF translate[b] = "raise"
                               THEN Append(error, "could_not_write") ELSE error,
                               [files |-> IF translate[b] = "ok" /\ image.merge_img_fp.v \in st.files
                                          THEN st.files \cup {out_filepath} ELSE st.files,
                                calls |-> st.calls \cup {<<"gdal.Translate", out_filepath>>}],
                               translate)
         IN  Band(BandFile(image, bands[b]))

\* gdal_split_band, lines 386-412.
gdal_split_band(image, overwrite, fs, manifest, translate) ==
    LET Split2(order) ==
            IF order.raised THEN StageResult("raise", <<>>, ErrNone, fs, {})
            ELSE IF order.err_msg # ErrNone
            THEN StageResult("tuple", <<>>, ErrList(<<order.err_msg.msgs[1]>>), fs, {})
            ELSE SplitLoop(image, overwrite, order.l_band_order, 1, <<>>, <<>>,
                           [files |-> fs, calls |-> {}], translate)
    IN  Split2(get_band_order(manifest))

\* ---------------------------------------------------- delete_temp_files.py
\* getattr on a dataclass instance: the attribute is one of its fields.
HasAttr(obj, name) == name \in DOMAIN obj

\* main, line 28: the four bands an image must have on disk. A band tag is
\* one element of a file name.
bgrn_dict == {"BAND_B", "BAND_G", "BAND_R", "BAND_N"}

\* main, lines 31-32: the *.tif and *.TIF files of the prep folder of img.
lst_img(img, fs) ==
    {f \in fs : /\ Parent(f) = UnitPath(img, img.prep_folder.v)
                /\ (EndsWith(f, Exttif) \/ EndsWith(f, ExtTIF))}

\* main, line 34: the files whose stem does not end on _BAND_ and a word.
lst_to_del(img, fs) ==
    {f \in lst_img(img, fs) :
        ~\E b \in bgrn_dict : EndsWith(Stem(Name(f)), <<"_", b>>)}

\* main, lines 36-42: the bands with no file in the prep folder.
BandsMissing(img, fs) ==
    {b \in bgrn_dict : ~\E f \in lst_img(img, fs) : EndsWith(Stem(Name(f)), <<"_", b>>)}

\* Every file of the prep folder is deleted, whatever the bands and the mode.
DeleteOf_Unguarded(img, fs, dry_run, remove) ==
    [raised |-> FALSE, errors |-> <<>>, files |-> fs \ lst_img(img, fs),
     calls |-> {<<"os.remove", f>> : f \in lst_img(img, fs)}]

\* main, lines 27-54, for one element img of the list tile_list_glob returned.
\* Both branches read img.im_name (lines 41 and 45), which TileInfo does not
\* have: AttributeError leaves main before any os.remove. remove is what
\* os.remove does: "ok", or "OSError" (caught at line 53).
DeleteOf(img, fs, dry_run, remove) ==
    LET Step(missing, to_del) ==
            IF ~HasAttr(img, "im_name")
            THEN [raised |-> TRUE, errors |-> <<>>, files |-> fs, calls |-> {}]
            ELSE IF missing # {}
            THEN [raised |-> FALSE, errors |-> <<"band_missing">>, files |-> fs, calls |-> {}]
            ELSE IF dry_run
            THEN [raised |-> FALSE, errors |-> <<>>, files |-> fs, calls |-> {}]
            ELSE [raised |-> FALSE, errors |-> <<>>,
                  files |-> IF remove = "ok" THEN fs \ to_del ELSE fs,
                  calls |-> {<<"os.remove", f>> : f \in to_del}]
    IN  Step(BandsMissing(img, fs), lst_to_del(img, fs))

\* main, lines 26-58: the loop over the list from element i on, with the
\* errors, the files and the calls so far.
RECURSIVE DeleteLoop(_, _, _, _, _)
DeleteLoop(tile_list, i, dry_run, remove, st) ==
    IF i > Len(tile_list)
    THEN StageResult("None", <<>>, ErrList(st.errors), st.files, st.calls)
    ELSE LET After(step) ==
                IF step.raised
                THEN StageResult("raise", <<>>, ErrList(st.errors), st.files, st.calls)
                ELSE DeleteLoop(tile_list, i + 1, dry_run, remove,
                                [errors |-> st.errors \o step.errors, files |-> step.files,
                                 calls |-> st.calls \cup step.calls])
         IN  After(DeleteOf(tile_list[i], st.files, dry_run, remove))

\* delete_temp_files.main on the list pansharp_glob_list.
delete_main(pansharp_glob_list, dry_run, remove, fs) ==
    DeleteLoop(pansharp_glob_list, 1, dry_run, remove,
               [errors |-> <<>>, files |-> fs, calls |-> {}])

\* -------------------------------------------------- preprocess_pipeline.py
\* PansharpRaster.__init__, line 81: the datatypes the assertion lets through.
SupportedDtypes == {"uint8", "int16", "uint16", "int32", "uint32"}

\* main, lines 84-167, for one row of the list: the exception that leaves
\* the loop ("none" when the row ends on the continue of line 110) and the
\* external calls made. A row is a datatype, whether its two inputs exist,
\* and whether its pansharp and its cog exist; no 8-bit copy exists and
\* copy_to_8bit has its default. PansharpRaster defines neither pansharpen
\* (line 113) nor coggify (line 126), and CsvLogger.write_row has no
\* parameter named row (line 167).
main_row(row, cog, overwrite, dry_run) ==
    IF row.dtype \notin SupportedDtypes
    THEN [exc |-> "AssertionError", calls |-> {}]
    ELSE IF ~row.cog /\ (~row.psh \/ overwrite) /\ row.inputs # "both"
    THEN [exc |-> "none", calls |-> {}]
    ELSE IF ~row.cog /\ (~row.psh \/ overwrite)
    THEN [exc |-> "AttributeError", calls |-> {}]
    ELSE IF cog
    THEN [exc |-> "AttributeError", calls |-> {}]
    ELSE [exc |-> "TypeError",
          calls |-> IF row.dtype = "uint16" /\ ~dry_run
                    THEN {<<"otb_8bit_rescale", row>>} ELSE {}]

\* main, lines 83-191: the loop from row i on with the calls so far, then
\* the summary, which reads the loop variable PshRaster (line 169): unbound
\* when the list is empty. errors holds the exception that left main.
RECURSIVE MainLoop(_, _, _, _, _, _)
MainLoop(pansharp_glob_list, i, cog, overwrite, dry_run, calls) ==
    IF i > Len(pansharp_glob_list)
    THEN IF pansharp_glob_list = <<>>
         THEN StageResult("raise", <<>>, ErrText("UnboundLocalError"), {}, calls)
         ELSE StageResult("None", <<>>, ErrNone, {}, calls)
    ELSE LET After(o) ==
                IF o.exc # "none"
                THEN StageResult("raise", <<>>, ErrText(o.exc), {}, calls \cup o.calls)
                ELSE MainLoop(pansharp_glob_list, i + 1, cog, overwrite, dry_run,
                              calls \cup o.calls)
         IN  After(main_row(pansharp_glob_list[i], cog, overwrite, dry_run))

\* ------------------------------------------------------------------- state
VARIABLES
    cfg,                \* the arguments of tile_list_glob
    tree,               \* the directory tree below base_dir, once it was read
    tree_read,          \* whether a glob has read the tree yet
    pc,                 \* position of tile_list_glob and of its caller
    exc,                \* the exception that ended the call, or "none"
    cwd,                \* the process working directory: "orig" or "base"
    made_dirs,          \* directories the call made or ensured
    csv_file,           \* the csv manifest: whether it exists, and its rows
    globbed,            \* the globs evaluated so far
    todo,               \* pattern keys of mul_pan_info_list still to glob
    cur,                \* the pattern key of the glob being iterated
    cands,              \* rasters the running glob has yet to yield
    glob_output_list,   \* the TileInfo records appended so far
    warnings,           \* what logging.warning recorded: <<kind, raster, key>>
    list_img,           \* the ImageInfo records grouped from the returned list
    csv_tiles,          \* the TileInfo records read back from the csv manifest
    pcfg,               \* the pipeline's parameters: method and overwrite
    units,              \* the acquisitions the pipeline runs over
    files,              \* the files on disk
    ptiles,             \* the pipeline's list of TileInfo
    pimages,            \* the pipeline's list of ImageInfo
    ppc,                \* position of the pipeline
    pidx,               \* index of the tile or image to process next
    run,                \* 1 in the first run over the units, 2 in the second
    calls,              \* the external calls of this run
    entered,            \* the image-level stages invoked in this run
    first,              \* the outputs and the disk of the first run, once it is over
    scall,              \* one stage called on its own: the stage and its arguments
    sres                \* what that call returned and did, once it is over

dvars == <<cfg, tree, tree_read, pc, exc, cwd, made_dirs, csv_file, globbed, todo,
           cur, cands, glob_output_list, warnings, list_img, csv_tiles>>
pvars == <<pcfg, units, files, ptiles, pimages, ppc, pidx, run, calls, entered, first>>
svars == <<scall, sres>>
vars == <<dvars, pvars, svars>>

LogsDir == PathJoin(BaseDir, <<"l", "o", "g", "s">>)

DInit ==
    /\ cfg \in Configs
    /\ tree = EmptyTree
    /\ tree_read = FALSE
    /\ pc = "start"
    /\ exc = "none"
    /\ cwd = "orig"
    /\ made_dirs = {}
    /\ csv_file = [exists |-> FALSE, rows |-> <<>>]
    /\ globbed = {}
    /\ todo = <<>>
    /\ cur = 0
    /\ cands = {}
    /\ glob_output_list = <<>>
    /\ warnings = {}
    /\ list_img = {}
    /\ csv_tiles = <<>>

\* The call ends with exception e.
Raise(e) == pc' = "raised" /\ exc' = e

\* The tree a glob sees: read at the first glob, the same from then on.
Observe == /\ tree_read' = TRUE
           /\ IF tree_read THEN tree' = tree ELSE tree' \in Trees

\* Lines 105-125: the assertion, the pairing of the patterns, os.chdir,
\* the logs directory and the CsvLogger (which creates the csv file).
Setup ==
    /\ pc = "start"
    /\ IF ~AssertLengths(cfg)
       THEN /\ Raise("AssertionError")
            /\ UNCHANGED <<cwd, made_dirs, csv_file, todo>>
       ELSE IF InfoListError(cfg) # "ok"
       THEN /\ Raise(InfoListError(cfg))
            /\ UNCHANGED <<cwd, made_dirs, csv_file, todo>>
       ELSE /\ cwd' = "base"
            /\ made_dirs' = {LogsDir}
            /\ csv_file' = IF cfg.out_csv # "" THEN [exists |-> TRUE, rows |-> <<>>]
                           ELSE csv_file
            /\ todo' = KeyList(cfg.globKeys)
            /\ pc' = "pass1"
            /\ exc' = exc
    /\ UNCHANGED <<cfg, tree, tree_read, globbed, cur, cands, glob_output_list,
                   warnings, list_img, csv_tiles>>
    /\ UNCHANGED <<pvars, svars>>

\* Lines 129-133: the next pattern's glob of multispectral rasters.
StartMulGlob ==
    /\ pc = "pass1"
    /\ todo # <<>>
    /\ Observe
    /\ cur' = Head(todo)
    /\ cands' = MulFiles(tree')
    /\ globbed' = globbed \cup {<<"mul", Head(todo)>>}
    /\ pc' = "mul_glob"
    /\ UNCHANGED <<cfg, exc, cwd, made_dirs, csv_file, todo, glob_output_list,
                   warnings, list_img, csv_tiles>>
    /\ UNCHANGED <<pvars, svars>>

\* Line 221: out_csv.write_row(tile_info). out_csv is the CsvLogger when the
\* argument was not "", and still the str "" otherwise: a str has no write_row.
write_row_raises(c) == c.out_csv = ""

\* Lines 136-221: one multispectral raster of the running glob.
MulCandidate ==
    /\ pc = "mul_glob"
    /\ \E mul_raster \in cands :
      \E o \in {MulOutcome(tree, made_dirs, mul_raster, cur)} :
        \E mkres \in {IF o.mk.some THEN MkdirResult(TreeDirs(tree, made_dirs), o.mk.v)
                      ELSE "exists"} :
            /\ cands' = cands \ {mul_raster}
            /\ made_dirs' = IF mkres = "created" THEN made_dirs \cup {o.mk.v} ELSE made_dirs
            /\ IF o.kind = "IndexError" THEN
                    /\ Raise("IndexError")
                    /\ UNCHANGED <<glob_output_list, csv_file, warnings>>
               ELSE IF mkres = "FileNotFoundError" THEN
                    /\ Raise("FileNotFoundError")
                    /\ UNCHANGED <<glob_output_list, csv_file, warnings>>
               ELSE IF o.kind = "tile" THEN
                    /\ glob_output_list' = Append(glob_output_list, o.tile)
                    /\ warnings' = warnings
                    /\ IF write_row_raises(cfg)
                       THEN Raise("AttributeError") /\ csv_file' = csv_file
                       ELSE /\ csv_file' = [csv_file EXCEPT !.rows = Append(@, tile_to_row(o.tile))]
                            /\ UNCHANGED <<pc, exc>>
               ELSE /\ warnings' = warnings \cup {<<o.kind, mul_raster, cur>>}
                    /\ UNCHANGED <<glob_output_list, csv_file, pc, exc>>
    /\ UNCHANGED <<cfg, tree, tree_read, cwd, globbed, todo, cur, list_img, csv_tiles>>
    /\ UNCHANGED <<pvars, svars>>

\* The glob of one pattern is exhausted: on to the next pattern.
EndMulGlob ==
    /\ pc = "mul_glob"
    /\ cands = {}
    /\ todo' = Tail(todo)
    /\ pc' = "pass1"
    /\ UNCHANGED <<cfg, tree, tree_read, exc, cwd, made_dirs, csv_file, globbed, cur,
                   cands, glob_output_list, warnings, list_img, csv_tiles>>
    /\ UNCHANGED <<pvars, svars>>

\* Lines 223-228: the first pass is over; the second runs if psh_glob is set.
EndPass1 ==
    /\ pc = "pass1"
    /\ todo = <<>>
    /\ pc' = IF cfg.psh_glob THEN "pass2" ELSE "returned"
    /\ UNCHANGED <<cfg, tree, tree_read, exc, cwd, made_dirs, csv_file, globbed, todo,
                   cur, cands, glob_output_list, warnings, list_img, csv_tiles>>
    /\ UNCHANGED <<pvars, svars>>

\* Lines 229-231: the glob of already-pansharpened rasters.
StartPshGlob ==
    /\ pc = "pass2"
    /\ Observe
    /\ cands' = PshFiles(tree')
    /\ globbed' = globbed \cup {<<"psh", 0>>}
    /\ pc' = "psh_glob"
    /\ UNCHANGED <<cfg, exc, cwd, made_dirs, csv_file, todo, cur, glob_output_list,
                   warnings, list_img, csv_tiles>>
    /\ UNCHANGED <<pvars, svars>>

\* Lines 232-271: one already-pansharpened raster.
PshCandidate ==
    /\ pc = "psh_glob"
    /\ \E psh_raster \in cands :
      \E o \in {PshOutcome(tree, psh_raster)} :
        \E mkres \in {IF o.mk.some THEN MkdirResult(TreeDirs(tree, made_dirs), o.mk.v)
                      ELSE "exists"} :
            /\ cands' = cands \ {psh_raster}
            /\ made_dirs' = IF mkres = "created" THEN made_dirs \cup {o.mk.v} ELSE made_dirs
            /\ IF mkres = "FileNotFoundError" THEN
                    /\ Raise("FileNotFoundError")
                    /\ UNCHANGED <<glob_output_list, warnings>>
               ELSE IF o.kind = "tile" THEN
                    /\ glob_output_list' = Append(glob_output_list, o.tile)
                    /\ UNCHANGED <<warnings, pc, exc>>
               ELSE /\ warnings' = warnings \cup {<<o.kind, psh_raster, 0>>}
                    /\ UNCHANGED <<glob_output_list, pc, exc>>
    /\ UNCHANGED <<cfg, tree, tree_read, cwd, csv_file, globbed, todo, cur, list_img,
                   csv_tiles>>
    /\ UNCHANGED <<pvars, svars>>

\* Lines 273-281: return glob_output_list.
EndPshGlob ==
    /\ pc = "psh_glob"
    /\ cands = {}
    /\ pc' = "returned"
    /\ UNCHANGED <<cfg, tree, tree_read, exc, cwd, made_dirs, csv_file, globbed, todo,
                   cur, cands, glob_output_list, warnings, list_img, csv_tiles>>
    /\ UNCHANGED <<pvars, svars>>

\* validation.main, lines 64-68: the caller groups the returned tiles.
Group ==
    /\ pc = "returned"
    /\ list_img' = GroupImages(glob_output_list)
    /\ pc' = "grouped"
    /\ UNCHANGED <<cfg, tree, tree_read, exc, cwd, made_dirs, csv_file, globbed, todo,
                   cur, cands, glob_output_list, warnings, csv_tiles>>
    /\ UNCHANGED <<pvars, svars>>

\* list_of_tiles_from_csv on the manifest the call wrote.
LoadCsv ==
    /\ pc = "grouped"
    /\ csv_file.exists
    /\ csv_tiles' = list_of_tiles_from_csv(csv_file.rows)
    /\ pc' = "loaded"
    /\ UNCHANGED <<cfg, tree, tree_read, exc, cwd, made_dirs, csv_file, globbed, todo,
                   cur, cands, glob_output_list, warnings, list_img>>
    /\ UNCHANGED <<pvars, svars>>

\* Discovery leaves the pipeline where it is: not started.
PIdle ==
    /\ pcfg = [method |-> "otb-bayes", overwrite |-> FALSE]
    /\ units = <<>>
    /\ files = {}
    /\ ptiles = <<>>
    /\ pimages = <<>>
    /\ ppc = "idle"
    /\ pidx = 0
    /\ run = 0
    /\ calls = {}
    /\ entered = {}
    /\ first = <<>>

\* No stage is called on its own.
NoCall == [stage |-> "none", tile |-> NoTile, image |-> ImageInfo(<<BaseDir, <<>>, None, None>>),
           method |-> "otb-bayes", overwrite |-> FALSE, dry_run |-> FALSE, fs |-> {},
           env |-> <<>>, manifest |-> [state |-> "missing", bands |-> <<>>], args |-> <<>>]
NoResult == StageResult("pending", <<>>, ErrNone, {}, {})
SIdle == scall = NoCall /\ sres = NoResult

Init == DInit /\ PIdle /\ SIdle

Next ==
    \/ Setup
    \/ StartMulGlob
    \/ MulCandidate
    \/ EndMulGlob
    \/ EndPass1
    \/ StartPshGlob
    \/ PshCandidate
    \/ EndPshGlob
    \/ Group
    \/ LoadCsv

\* Discovery: tile_list_glob, the grouping of its result and the reading
\* back of its csv manifest.
Spec == Init /\ [][Next]_vars

\* ------------------------------------------------------------ the pipeline
\* The directories of acquisition img carry its name: A_MUL, A_PAN, A_PSH.
DirOf(img, kind) == <<img, "_">> \o kind

\* One acquisition the pipeline runs over: its number of tiles, whether it
\* is a mul/pan pair or already pansharpened, its datatype, which inputs of
\* its first tile exist ("both", "mul" alone, "none"), and its manifest.
PipeUnits ==
    {u \in [n : TileIds, kind : {"pair", "psh"}, dtype : {"uint8", "uint16"},
            inputs : {"both", "mul", "none"}, manifest : Manifests] :
        u.kind = "psh" => u.inputs = "both"}
SiblingUnit == [n |-> 1, kind |-> "pair", dtype |-> "uint16", inputs |-> "both",
                manifest |-> [state |-> "parsed", bands |-> <<"BAND_B">>]]

\* The TileInfo tile_list_glob emits for tile i of acquisition img.
PipeTile(img, i, u) ==
    LET Pair(mul_rel, pan_rel) ==
            TileInfo(mul_process_steps(u.dtype), u.dtype, <<img>>, Some(mul_pan_info(1)),
                     Some(mul_rel), Some(pan_rel), None,
                     Some(output_path(EmptyTree, {}, mul_rel, pan_rel)), None,
                     Some(mul_xml_of(<<img>>, mul_rel)))
        Sharpened(psh_rel) ==
            TileInfo(psh_process_steps(u.dtype), u.dtype, <<img>>, None, None, None,
                     Some(psh_rel), Some(psh_output_path(psh_rel)),
                     Some(PathJoin(PathJoin(BaseDir, <<img>>), psh_rel)),
                     Some(mul_xml_of(<<img>>, psh_rel)))
    IN  IF u.kind = "pair"
        THEN Pair(PathJoin(DirOf(img, <<"M", "U", "L">>), MulName(i)),
                  PathJoin(DirOf(img, <<"P", "A", "N">>), PanName(i)))
        ELSE Sharpened(PathJoin(DirOf(img, <<"P", "S", "H">>), PshName(i)))

\* The list tile_list_glob returns for the units, and the rasters on disk.
WorkList(us) ==
    [i \in 1..us.A.n |-> PipeTile("A", i, us.A)] \o [i \in 1..us.B.n |-> PipeTile("B", i, us.B)]
InputsOf(img, u) ==
    LET Of(tile, have_mul, have_pan) ==
            IF u.kind = "psh" THEN {tile.last_processed_fp.v}
            ELSE (IF have_mul THEN {UnitPath(tile, tile.mul_tile.v)} ELSE {})
                 \cup (IF have_pan THEN {UnitPath(tile, tile.pan_tile.v)} ELSE {})
    IN  UNION {Of(PipeTile(img, i, u), i > 1 \/ u.inputs # "none", i > 1 \/ u.inputs = "both")
                  : i \in 1..u.n}

\* What the backend of a method can do when called.
Backends(method) ==
    IF method = "otb-bayes" THEN {"ok", "RuntimeError", "no_output"}
    ELSE IF method = "brovey" THEN {"ok", "ImportError"}
    ELSE {"ok"}
Translates == {"ok", "raise", "no_output"}
Merges == {"ok", "raise"}

PInit ==
    /\ pcfg \in [method : Methods, overwrite : BOOLEAN]
    /\ units \in [A : PipeUnits, B : {SiblingUnit}]
    /\ files = InputsOf("A", units.A) \cup InputsOf("B", units.B)
    /\ ptiles = WorkList(units)
    /\ pimages = <<>>
    /\ ppc = "tiles"
    /\ pidx = 1
    /\ run = 1
    /\ calls = {}
    /\ entered = {}
    /\ first = <<>>

\* The pipeline works on a list it was handed: discovery is over.
DIdle ==
    /\ cfg = [shape |-> "mapping", globKeys |-> {}, strKeys |-> {}, out_csv |-> "",
              psh_glob |-> FALSE]
    /\ tree = EmptyTree
    /\ tree_read = FALSE
    /\ pc = "handed"
    /\ exc = "none"
    /\ cwd = "base"
    /\ made_dirs = {}
    /\ csv_file = [exists |-> FALSE, rows |-> <<>>]
    /\ globbed = {}
    /\ todo = <<>>
    /\ cur = 0
    /\ cands = {}
    /\ glob_output_list = <<>>
    /\ warnings = {}
    /\ list_img = {}
    /\ csv_tiles = <<>>

\* step in tile.process_steps
InSteps(tile, step) == \E i \in 1..Len(tile.process_steps) : tile.process_steps[i] = step

\* Whether a returned error reports something.
Reported(errors) == errors.msgs # <<>>
ErrorsOf(r) == IF Reported(r.errors) THEN Some(r.errors) ELSE None

\* The per-tile steps: psh, then scale if no error so far. The result of a
\* stage is unpacked into the most recent output and the error; a stage that
\* returned None cannot be unpacked (TypeError), and an exception leaving a
\* stage ends the run.
TileSteps(tile, method, overwrite, fs, backend, translate) ==
    LET Scaled(t1, aborted, r1, r2) ==
            IF aborted THEN [aborted |-> TRUE, tile |-> tile, files |-> r1.files, calls |-> r1.calls]
            ELSE IF InSteps(t1, "scale") /\ ~t1.errors.some
            THEN [aborted |-> FALSE,
                  tile |-> [t1 EXCEPT !.last_processed_fp = Some(r2.path),
                                      !.errors = ErrorsOf(r2)],
                  files |-> r2.files, calls |-> r1.calls \cup r2.calls]
            ELSE [aborted |-> FALSE, tile |-> t1, files |-> r1.files, calls |-> r1.calls]
        After(t1, aborted, r1) ==
            Scaled(t1, aborted, r1,
                   IF ~aborted /\ InSteps(t1, "scale") /\ ~t1.errors.some
                   THEN gdal_8bit_rescale(t1, overwrite, r1.files, translate)
                   ELSE r1)
        Sharpen(r1) ==
            IF r1.ret # "tuple" THEN After(tile, TRUE, r1)
            ELSE After([tile EXCEPT !.last_processed_fp = Some(r1.path),
                                    !.errors = ErrorsOf(r1)], FALSE, r1)
    IN  IF InSteps(tile, "psh")
        THEN Sharpen(pansharpen(tile, method, FALSE, overwrite, fs, backend))
        ELSE After(tile, FALSE, StageResult("tuple", <<>>, ErrNone, fs, {}))

\* The error of the last tile alone, whatever the tiles before it report.
AggregateErrors_LastOnly(tiles) == tiles[Len(tiles)].errors

\* The error an Image takes from its tiles: that of the first tile that
\* reports one, None when no tile does.
AggregateErrors(tiles) ==
    IF \A i \in 1..Len(tiles) : ~tiles[i].errors.some THEN None
    ELSE tiles[CHOOSE i \in 1..Len(tiles) :
                 tiles[i].errors.some /\ \A j \in 1..(i - 1) : ~tiles[j].errors.some].errors

\* The Image of one key tuple: the outputs of its tiles in list order and
\* the error of its tiles.
BuildImage(key, tile_list) ==
    LET Mine(tile) == TileKey(tile) = key
        Built(mine) ==
            [ImageInfo(key) EXCEPT !.tile_list = [i \in 1..Len(mine) |-> mine[i].last_processed_fp.v],
                                   !.errors = AggregateErrors(mine)]
    IN  Built(SelectSeq(tile_list, Mine))

\* The image-level steps: merge when the Image has several tiles (else the
\* one tile stands for the merged raster), then split; both only for an
\* Image without error.
ImageSteps(image, overwrite, fs, manifest, merge, translate) ==
    LET Done(img, r, ent) ==
            [aborted |-> r.ret # "tuple", image |-> img, files |-> r.files,
             calls |-> r.calls, entered |-> ent]
        Splitted(img, r1, r2, ent) ==
            IF r2.ret # "tuple"
            THEN Done(img, [r2 EXCEPT !.calls = r1.calls \cup r2.calls], ent \cup {"split"})
            ELSE Done([img EXCEPT !.band_file_list = r2.path, !.errors = ErrorsOf(r2)],
                      [r2 EXCEPT !.calls = r1.calls \cup r2.calls], ent \cup {"split"})
        Merged(img, r1, ent) ==
            IF img.errors.some THEN Done(img, r1, ent)
            ELSE Splitted(img, r1,
                          gdal_split_band(img, overwrite, r1.files, manifest, translate), ent)
        Nothing == StageResult("tuple", <<>>, ErrNone, fs, {})
        Merge1(r1) ==
            Merged([image EXCEPT !.merge_img_fp = Some(r1.path), !.errors = ErrorsOf(r1)],
                   r1, {"merge"})
    IN  IF image.errors.some THEN Done(image, Nothing, {})
        ELSE IF Len(image.tile_list) > 1
        THEN Merge1(rasterio_merge_tiles(image, overwrite, fs, merge))
        ELSE Merged([image EXCEPT !.merge_img_fp = Some(image.tile_list[1])], Nothing, {})

\* One tile of the list goes through its steps.
ProcessTile ==
    /\ ppc = "tiles"
    /\ pidx <= Len(ptiles)
    /\ \E backend \in (IF InSteps(ptiles[pidx], "psh") THEN Backends(pcfg.method) ELSE {"ok"}),
          translate \in (IF InSteps(ptiles[pidx], "scale") THEN Translates ELSE {"ok"}) :
         \E o \in {TileSteps(ptiles[pidx], pcfg.method, pcfg.overwrite, files, backend,
                             translate)} :
            /\ files' = o.files
            /\ calls' = calls \cup o.calls
            /\ ptiles' = [ptiles EXCEPT ![pidx] = o.tile]
            /\ ppc' = IF o.aborted THEN "raised" ELSE ppc
            /\ pidx' = pidx + 1
    /\ UNCHANGED <<pcfg, units, pimages, run, entered, first>>
    /\ UNCHANGED <<dvars, svars>>

\* Every tile was attempted: the tiles are grouped into Images by their key
\* (validation.main, lines 63-68; a set has no fixed order).
GroupTiles ==
    /\ ppc = "tiles"
    /\ pidx > Len(ptiles)
    /\ \E order \in [1..Cardinality(unique_values(ptiles)) -> unique_values(ptiles)] :
         /\ \A i, j \in DOMAIN order : i # j => order[i] # order[j]
         /\ pimages' = [i \in DOMAIN order |-> BuildImage(order[i], ptiles)]
    /\ ppc' = "images"
    /\ pidx' = 1
    /\ UNCHANGED <<pcfg, units, files, ptiles, run, calls, entered, first>>
    /\ UNCHANGED <<dvars, svars>>

\* One Image goes through merge and split.
ProcessImage ==
    /\ ppc = "images"
    /\ pidx <= Len(pimages)
    /\ \E merge \in (IF Len(pimages[pidx].tile_list) > 1 THEN Merges ELSE {"ok"}),
          translate \in [1..Len(units[pimages[pidx].image_folder[1]].manifest.bands)
                            -> Translates] :
         \E o \in {ImageSteps(pimages[pidx], pcfg.overwrite, files,
                              units[pimages[pidx].image_folder[1]].manifest, merge,
                              translate)} :
            /\ files' = o.files
            /\ calls' = calls \cup o.calls
            /\ entered' = entered \cup {<<stage, pimages[pidx].image_folder>> : stage \in o.entered}
            /\ pimages' = [pimages EXCEPT ![pidx] = o.image]
            /\ ppc' = IF o.aborted THEN "raised"
                      ELSE IF pidx = Len(pimages) THEN "done" ELSE ppc
            /\ pidx' = pidx + 1
    /\ UNCHANGED <<pcfg, units, ptiles, run, first>>
    /\ UNCHANGED <<dvars, svars>>

\* After a run in which no Image took an error the pipeline is run a second
\* time over the same units: discovery hands it the same list again, the
\* files of the first run are on disk.
Rerun ==
    /\ ppc = "done"
    /\ run = 1
    /\ \A i \in 1..Len(pimages) : ~pimages[i].errors.some
    /\ first' = [tiles |-> ptiles, images |-> {pimages[i] : i \in 1..Len(pimages)},
                 files |-> files]
    /\ ptiles' = WorkList(units)
    /\ pimages' = <<>>
    /\ ppc' = "tiles"
    /\ pidx' = 1
    /\ run' = 2
    /\ calls' = {}
    /\ entered' = {}
    /\ UNCHANGED <<pcfg, units, files>>
    /\ UNCHANGED <<dvars, svars>>

PNext ==
    \/ ProcessTile
    \/ GroupTiles
    \/ ProcessImage
    \/ Rerun

\* The pipeline over a handed list of tiles, run once or twice.
PipeInit == DIdle /\ PInit /\ SIdle
SpecPipe == PipeInit /\ [][PNext]_vars

\* ------------------------------------------------ the stages, called alone
\* One call of one stage function, on any disk and with any behaviour of the
\* backend it calls; args is for what a step takes beside these (the list the
\* deletion step and the older main run over). dry_run is the mode of the run the call belongs to:
\* pansharpen takes it as a parameter, the three other stages have no such
\* parameter and run the same in both modes.
StageCall(stage, tile, image, method, overwrite, dry_run, fs, env, manifest) ==
    [stage |-> stage, tile |-> tile, image |-> image, method |-> method,
     overwrite |-> overwrite, dry_run |-> dry_run, fs |-> fs, env |-> env,
     manifest |-> manifest, args |-> <<>>]

\* The tiles discovery hands over: tile 1 of a mul/pan pair, and tile i of
\* an already-pansharpened acquisition.
PairTiles ==
    {PipeTile("A", 1, [n |-> 1, kind |-> "pair", dtype |-> d, inputs |-> "both",
                       manifest |-> NoCall.manifest]) : d \in {"uint8", "uint16"}}
SharpenedTile(i, d) ==
    PipeTile("A", i, [n |-> MaxTiles, kind |-> "psh", dtype |-> d, inputs |-> "both",
                      manifest |-> NoCall.manifest])

\* pansharpen on a pair: any of its two inputs and its output on disk.
PansharpenCalls ==
    UNION {{StageCall("pansharpen", t, NoCall.image, m, ow, dr, fs, b, NoCall.manifest) :
                ow \in BOOLEAN, dr \in BOOLEAN, b \in Backends(m),
                fs \in SUBSET {UnitPath(t, t.mul_tile.v), UnitPath(t, t.pan_tile.v),
                               output_psh_path(t, m)}} :
           t \in PairTiles, m \in Methods}

\* gdal_8bit_rescale on a 16-bit tile: a pair that was pansharpened, or an
\* already-pansharpened raster.
RescaleTiles ==
    {[t EXCEPT !.last_processed_fp = Some(output_psh_path(t, "otb-bayes"))] :
        t \in {u \in PairTiles : u.dtype = "uint16"}}
    \cup {SharpenedTile(1, "uint16")}
RescaleCalls ==
    UNION {{StageCall("rescale", t, NoCall.image, "otb-bayes", ow, dr, fs, tr,
                      NoCall.manifest) :
                ow \in BOOLEAN, dr \in BOOLEAN, tr \in Translates,
                fs \in SUBSET {t.last_processed_fp.v, rescale_outfile(t)}} :
           t \in RescaleTiles}

\* The Image of the first n tiles of an already-pansharpened acquisition.
StageImage(n) ==
    [ImageInfo(TileKey(SharpenedTile(1, "uint8"))) EXCEPT
        !.tile_list = [i \in 1..n |-> SharpenedTile(i, "uint8").last_processed_fp.v]]

\* rasterio_merge_tiles on an Image: any of its tiles and its output on disk.
MergeCalls ==
    UNION {{StageCall("merge", NoTile, img, "otb-bayes", ow, dr, fs, mg, NoCall.manifest) :
                ow \in BOOLEAN, dr \in BOOLEAN, mg \in Merges,
                fs \in SUBSET ({img.tile_list[i] : i \in 1..Len(img.tile_list)}
                               \cup {merge_outfile(img)})} :
           img \in {StageImage(n) : n \in TileIds}}

\* gdal_split_band on a single-tile Image, with any manifest: the raster to
\* split and any of the band files on disk.
SplitImage == [StageImage(1) EXCEPT !.merge_img_fp = Some(StageImage(1).tile_list[1])]
SplitCalls ==
    UNION {{StageCall("split", NoTile, SplitImage, "otb-bayes", ow, dr, fs, tr, mf) :
                ow \in BOOLEAN, dr \in BOOLEAN, tr \in [1..Len(mf.bands) -> Translates],
                fs \in SUBSET ({SplitImage.merge_img_fp.v}
                               \cup {BandFile(SplitImage, mf.bands[k]) : k \in 1..Len(mf.bands)})} :
           mf \in Manifests}

\* delete_temp_files.main on the first n tiles of an already-pansharpened
\* acquisition (the list tile_list_glob returns for it), with any of the four
\* band files and of the merged raster in the prep folder.
DeleteFiles ==
    {BandFile(SplitImage, b) : b \in bgrn_dict} \cup {merge_outfile(StageImage(MaxTiles))}
DeleteCalls ==
    {[StageCall("delete", NoTile, NoCall.image, "otb-bayes", FALSE, dr, fs, rm,
                NoCall.manifest) EXCEPT !.args = [i \in 1..n |-> SharpenedTile(i, "uint8")]] :
        n \in 0..MaxTiles, dr \in BOOLEAN, rm \in {"ok", "OSError"}, fs \in SUBSET DeleteFiles}

\* preprocess_pipeline.main on a list of at most MaxRows rows.
MaxRows == 2
MainRows == [dtype : {"uint8", "uint16", "float32"}, inputs : {"both", "none"},
             psh : BOOLEAN, cog : BOOLEAN]
MainCalls ==
    {[StageCall("main", NoTile, NoCall.image, "otb-bayes", ow, dr, {}, "ok",
                NoCall.manifest) EXCEPT !.args = [rows |-> rows, cog |-> cog]] :
        ow \in BOOLEAN, dr \in BOOLEAN, cog \in BOOLEAN,
        rows \in UNION {[1..n -> MainRows] : n \in 0..MaxRows}}

SInit ==
    /\ scall \in PansharpenCalls \cup RescaleCalls \cup MergeCalls \cup SplitCalls
                 \cup DeleteCalls \cup MainCalls
    /\ sres = NoResult

CallPansharpen ==
    /\ scall.stage = "pansharpen" /\ sres = NoResult
    /\ sres' = pansharpen(scall.tile, scall.method, scall.dry_run, scall.overwrite,
                          scall.fs, scall.env)
    /\ UNCHANGED <<scall, dvars, pvars>>

CallRescale ==
    /\ scall.stage = "rescale" /\ sres = NoResult
    /\ sres' = gdal_8bit_rescale(scall.tile, scall.overwrite, scall.fs, scall.env)
    /\ UNCHANGED <<scall, dvars, pvars>>

CallMerge ==
    /\ scall.stage = "merge" /\ sres = NoResult
    /\ sres' = rasterio_merge_tiles(scall.image, scall.overwrite, scall.fs, scall.env)
    /\ UNCHANGED <<scall, dvars, pvars>>

CallSplit ==
    /\ scall.stage = "split" /\ sres = NoResult
    /\ sres' = gdal_split_band(scall.image, scall.overwrite, scall.fs, scall.manifest,
                               scall.env)
    /\ UNCHANGED <<scall, dvars, pvars>>

CallDelete ==
    /\ scall.stage = "delete" /\ sres = NoResult
    /\ sres' = delete_main(scall.args, scall.dry_run, scall.env, scall.fs)
    /\ UNCHANGED <<scall, dvars, pvars>>

CallMain ==
    /\ scall.stage = "main" /\ sres = NoResult
    /\ sres' = MainLoop(scall.args.rows, 1, scall.args.cog, scall.overwrite,
                        scall.dry_run, {})
    /\ UNCHANGED <<scall, dvars, pvars>>

SNext ==
    \/ CallPansharpen
    \/ CallRescale
    \/ CallMerge
    \/ CallSplit
    \/ CallDelete
    \/ CallMain

\* The stage functions, the deletion step and the older main, each called
\* once on any input.
StageInit == DIdle /\ PIdle /\ SInit
SpecStage == StageInit /\ [][SNext]_vars

\* ------------------------------------------------------ discovery, claims
\* The records tile_list_glob has emitted, and what the claims say of them.
Tiles == {glob_output_list[i] : i \in 1..Len(glob_output_list)}
IsPair(tile) == tile.mul_tile.some /\ tile.pan_tile.some
Steps(tile) == {tile.process_steps[i] : i \in 1..Len(tile.process_steps)}
FolderOf(tile) == tile.image_folder[1]
\* The number of tiles the manifest of the tile's acquisition lists.
ManifestTiles(tile) ==
    IF tile.psh_tile.some THEN tree.psh.manifest ELSE tree[FolderOf(tile)].mulManifest
\* The candidate and the pattern key a paired tile was built from.
RasterOfTile(tile) == PathJoin(tile.image_folder, tile.mul_tile.v)
KeyOfTile(tile) == CHOOSE k \in PatternKeys : mul_pan_info(k) = tile.mul_pan_patern.v

\* C1: every emitted record has 'psh' in process_steps exactly when it is an
\* unsharpened mul/pan pair, 'merge' exactly when the manifest of its
\* acquisition lists more than one tile, and 'scale' exactly when its
\* datatype is not uint8.
C1_StepsFollowPairManifestDtype ==
    \A tile \in Tiles :
        /\ ("psh" \in Steps(tile)) <=> IsPair(tile)
        /\ ("merge" \in Steps(tile)) <=> (ManifestTiles(tile) > 1)
        /\ ("scale" \in Steps(tile)) <=> (tile.dtype # "uint8")

\* C2: an acquisition whose multispectral and panchromatic manifests list
\* different numbers of tiles gets a recorded discovery error and no Tile.
C2_ManifestMismatchEmitsNoTile ==
    \A f \in ImageFolders :
        (tree[f].mulManifest # tree[f].panManifest /\ tree[f].mul # {}) =>
            /\ \A tile \in Tiles : ~(IsPair(tile) /\ FolderOf(tile) = f)
            /\ (cfg.globKeys # {} /\ pc \in {"returned", "grouped", "loaded"}) =>
                    \E w \in warnings : Parents1(w[2]) = <<f>>

\* A tree of one consistent naming convention: every acquisition has the same
\* tiles in its multispectral and panchromatic directories, readable, with
\* its manifest, both manifests listing exactly those tiles.
ConsistentAcq(a) ==
    a = NoAcq \/ (/\ a.mul = a.pan /\ a.xml = "ok" /\ a.raster # "unreadable"
                  /\ a.mulManifest = Cardinality(a.mul)
                  /\ a.panManifest = Cardinality(a.mul))
ConsistentTree == /\ tree_read /\ tree.psh = NoPsh
                  /\ \A f \in ImageFolders : ConsistentAcq(tree[f])
\* The call was given one pattern whose markers the names carry.
OnePattern == cfg.globKeys = {1} /\ cfg.strKeys = {1} /\ ~cfg.psh_glob

\* C3: on a tree of one consistent naming convention, discovery and grouping
\* yield exactly one Image per acquisition, with as many Tile records as the
\* manifest of the acquisition lists tiles.
C3_OneImagePerAcquisition ==
    (OnePattern /\ pc \in {"raised", "grouped", "loaded"}
     /\ (tree_read => ConsistentTree)) =>
        /\ pc # "raised"
        /\ \A f \in ImageFolders : tree[f].mul # {} =>
            /\ Cardinality({img \in list_img : img.image_folder = <<f>>}) = 1
            /\ Cardinality({i \in 1..Len(glob_output_list) :
                               FolderOf(glob_output_list[i]) = f}) = tree[f].mulManifest

\* C4: every Tile record, emitted by tile_list_glob or rebuilt by
\* list_of_tiles_from_csv, has psh_tile set exactly when mul_tile and
\* pan_tile are both unset.
PairXorSharpened(tile) ==
    tile.psh_tile.some <=> (~tile.mul_tile.some /\ ~tile.pan_tile.some)
C4_PairXorSharpened ==
    /\ \A tile \in Tiles : PairXorSharpened(tile)
    /\ \A i \in 1..Len(csv_tiles) : PairXorSharpened(csv_tiles[i])

\* C7: a call with mul_pan_glob and mul_pan_str of different lengths fails at
\* once: no glob was evaluated, the working directory is unchanged, and
\* neither the logs directory nor the csv file was created.
LengthsDiffer == Cardinality(cfg.globKeys) # Cardinality(cfg.strKeys)
C7_LengthMismatchFailsFast ==
    (LengthsDiffer /\ pc # "start") =>
        /\ pc = "raised" /\ exc = "AssertionError"
        /\ globbed = {} /\ ~tree_read
        /\ cwd = "orig"
        /\ made_dirs = {} /\ ~csv_file.exists
C7_Witness == LengthsDiffer /\ pc = "raised" /\ exc = "AssertionError"

\* C8: a multispectral candidate whose panchromatic glob finds nothing gets a
\* warning recorded and no Tile, and the loop goes on with the candidates
\* that remain.
C8_MissingPanSkipped ==
    [][\A r \in cands :
        (pc = "mul_glob" /\ cands' = cands \ {r} /\ pan_rasters_str(tree, r) = {}) =>
            /\ <<"missing_pan", r, cur>> \in warnings'
            /\ glob_output_list' = glob_output_list
            /\ pc' = "mul_glob" /\ exc' = "none"]_vars
C8_Witness ==
    /\ \E w \in warnings : w[1] = "missing_pan"
    /\ glob_output_list # <<>>
    /\ pc = "returned"

\* C9: a multispectral candidate whose panchromatic candidates hold no
\* reasonable match is skipped with a recorded error, and the loop goes on
\* with the candidates that remain; the call does not abort.
C9_NoMatchSkipped ==
    [][\A r \in cands :
        (/\ pc = "mul_glob" /\ cands' = cands \ {r}
         /\ pan_rasters_str(tree, r) # {}
         /\ \A c \in pan_rasters_str(tree, r) :
               ~RatioGeq(Ratio(c, pan_best_guess_rel_path(tree, r, cur)),
                         <<CutoffNum, CutoffDen>>)) =>
            /\ \E w \in warnings' : w[2] = r /\ w[3] = cur
            /\ glob_output_list' = glob_output_list
            /\ pc' = "mul_glob" /\ exc' = "none"]_vars

\* C10: when the best-guess panchromatic path is verbatim among the globbed
\* candidates, it is the pan_tile of the Tile, whatever the other candidates.
GuessOfTile(tile) == pan_best_guess_rel_path(tree, RasterOfTile(tile), KeyOfTile(tile))
C10_ExactMatchSelected ==
    \A tile \in Tiles :
        (IsPair(tile) /\ GuessOfTile(tile) \in pan_rasters_str(tree, RasterOfTile(tile))) =>
            tile.pan_tile.v = GuessOfTile(tile)
C10_Witness ==
    \E tile \in Tiles :
        /\ IsPair(tile)
        /\ GuessOfTile(tile) \in pan_rasters_str(tree, RasterOfTile(tile))
        /\ Cardinality(pan_rasters_str(tree, RasterOfTile(tile))) > 1
        /\ tile.pan_tile.v = GuessOfTile(tile)

\* The state of the manifest beside candidate r of the running glob, and
\* whether handling r gets as far as looking for the manifest.
ManifestOfCand(r) ==
    IF pc = "mul_glob" THEN tree[image_folder_of(r)[1]].xml ELSE tree.psh.xml
ReachesManifest(r) ==
    IF pc = "mul_glob" THEN MulOutcome(tree, made_dirs, r, cur).kind \in {"no_xml", "tile"}
    ELSE PshOutcome(tree, r).kind \in {"no_xml", "tile"}

\* C11: in both passes a candidate whose manifest is missing or unreadable
\* is skipped: no Tile is emitted for it, and the loop goes on with the
\* candidates that remain.
C11_BadManifestSkipped ==
    [][\A r \in cands :
        (/\ pc \in {"mul_glob", "psh_glob"} /\ cands' = cands \ {r}
         /\ ReachesManifest(r) /\ ManifestOfCand(r) # "ok") =>
            /\ glob_output_list' = glob_output_list
            /\ pc' = pc /\ exc' = "none"]_vars

\* tile_list_glob is over: it returned, or it raised.
CallOver == pc \in {"returned", "raised", "grouped", "loaded"}
HasReturned == pc \in {"returned", "grouped", "loaded"}

\* C19: once tile_list_glob is over, by returning or by raising, the working
\* directory of the process is what it was before the call.
C19_WorkingDirectoryRestored ==
    CallOver => cwd = "orig"

\* C20: with a csv manifest configured, once tile_list_glob has returned the
\* manifest holds exactly the rows of the returned tiles, one each and in
\* order, those of the already-pansharpened pass included.
C20_OneRowPerReturnedTile ==
    (HasReturned /\ cfg.out_csv # "") =>
        csv_file.rows = [i \in 1..Len(glob_output_list) |-> tile_to_row(glob_output_list[i])]

\* The caller has grouped the returned tiles.
HasGrouped == pc \in {"grouped", "loaded"}

\* C21: grouping by (parent_folder, image_folder, prep_folder, mul_xml) puts
\* every tile in exactly one image: as many images as distinct tuples, each
\* tile with exactly one image of its tuple, and no image without a tile.
C21_EveryTileInOneImage ==
    HasGrouped =>
        /\ Cardinality(list_img) = Cardinality({TileKey(tile) : tile \in Tiles})
        /\ \A tile \in Tiles :
              Cardinality({img \in list_img : TileKey(img) = TileKey(tile)}) = 1
        /\ \A img \in list_img : \E tile \in Tiles : TileKey(tile) = TileKey(img)

\* Grouped: several images, one of them with more than one tile.
C21_Witness ==
    /\ HasGrouped
    /\ Cardinality(list_img) > 1
    /\ Len(glob_output_list) > Cardinality(list_img)

\* parent_folder / image_folder / prep_folder of a tile.
PrepDirOf(tile) == UnitPath(tile, tile.prep_folder.v)

\* C22: the prep directory of every emitted tile, of either pass, exists on
\* disk from the moment the record is emitted.
C22_PrepDirectoryExists ==
    \A tile \in Tiles : PrepDirOf(tile) \in TreeDirs(tree, made_dirs)

\* C23: called without an out_csv, tile_list_glob still emits every valid
\* mul/pan pair and goes on: handling a candidate that comes to a Tile appends
\* the Tile and raises nothing because of the manifest.
C23_ManifestIsOptional ==
    [][\A r \in cands :
        (/\ pc = "mul_glob" /\ cands' = cands \ {r} /\ cfg.out_csv = ""
         /\ MulOutcome(tree, made_dirs, r, cur).kind = "tile"
         /\ exc' # "FileNotFoundError") =>
            /\ glob_output_list' = Append(glob_output_list, MulOutcome(tree, made_dirs, r, cur).tile)
            /\ pc' = "mul_glob" /\ exc' = "none"]_vars

\* Two records of the list refer to the same source raster: the same
\* image_folder and the same mul_tile, or the same psh_tile.
SameSource(a, b) ==
    /\ a.image_folder = b.image_folder
    /\ \/ a.mul_tile.some /\ b.mul_tile.some /\ a.mul_tile.v = b.mul_tile.v
       \/ a.psh_tile.some /\ b.psh_tile.some /\ a.psh_tile.v = b.psh_tile.v

\* C27: the list of tile_list_glob holds no two records of the same source
\* raster, even when several configured patterns match the same file.
C27_ListIsDeduplicated ==
    \A i, j \in 1..Len(glob_output_list) :
        i # j => ~SameSource(glob_output_list[i], glob_output_list[j])

\* Tile b, read back from the manifest, against tile a, the one written:
\* the same plan, the same naming pattern, and the four optional paths set
\* or unset alike and with the same value.
SameAfterRoundTrip(a, b) ==
    /\ b.process_steps = a.process_steps
    /\ b.mul_pan_patern = a.mul_pan_patern
    /\ b.mul_tile = a.mul_tile /\ b.pan_tile = a.pan_tile
    /\ b.psh_tile = a.psh_tile /\ b.last_processed_fp = a.last_processed_fp

\* C29: a Tile written to the CSV manifest with tile_to_row and read back
\* with list_of_tiles_from_csv comes back with the same process_steps, the
\* same naming pattern, and the same set/unset state and value of mul_tile,
\* pan_tile, psh_tile and last_processed_fp.
C29_CsvRoundTrip ==
    pc = "loaded" =>
        \A i \in 1..Len(csv_tiles) : SameAfterRoundTrip(glob_output_list[i], csv_tiles[i])

\* C30: a candidate that tile_list_glob skips with a logged error (missing
\* panchromatic partner, unmatched partner, unreadable raster, missing
\* manifest) leaves nothing else behind: no Tile in the list, no row in the
\* CSV manifest, no directory made on disk.
C30_SkipLeavesNoTrace ==
    [][(pc \in {"mul_glob", "psh_glob"} /\ warnings' # warnings) =>
        /\ glob_output_list' = glob_output_list
        /\ csv_file' = csv_file
        /\ made_dirs' = made_dirs]_vars

\* ------------------------------------------------------- pipeline, claims
PipeFolders == {<<"A">>, <<"B">>}
TilesOf(f) == {i \in 1..Len(ptiles) : ptiles[i].image_folder = f}
ImagesOf(f) == {i \in 1..Len(pimages) : pimages[i].image_folder = f}
TileErrored(f) == \E i \in TilesOf(f) : ptiles[i].errors.some
\* The messages the image-level stages report.
ImageMessages == {"could_not_merge", "could_not_write", "no_band_order"}

\* C5: an Image one of whose tiles carries an error never has merge or split
\* invoked and is marked errored; an Image none of whose tiles carries an
\* error goes through merge and split whatever the tiles of the other
\* Images carry, and takes an error from its own stages only.
C5_ErroredTileBlocksItsImageOnly ==
    \A f \in PipeFolders :
        /\ TileErrored(f) =>
            /\ <<"merge", f>> \notin entered /\ <<"split", f>> \notin entered
            /\ ppc \in {"images", "done"} => \A i \in ImagesOf(f) : pimages[i].errors.some
        /\ (~TileErrored(f) /\ ppc = "done") =>
            /\ Cardinality(ImagesOf(f)) = 1
            /\ \A i \in ImagesOf(f) :
                /\ Len(pimages[i].tile_list) = Cardinality(TilesOf(f))
                /\ Cardinality(TilesOf(f)) > 1 => <<"merge", f>> \in entered
                /\ <<"split", f>> \in entered \/ pimages[i].errors.some
                /\ pimages[i].errors.some =>
                      \A k \in 1..Len(pimages[i].errors.v.msgs) :
                          pimages[i].errors.v.msgs[k] \in ImageMessages
C5_Witness ==
    /\ ppc = "done"
    /\ TileErrored(<<"A">>) /\ <<"split", <<"A">>>> \notin entered
    /\ \A i \in ImagesOf(<<"A">>) : pimages[i].errors.some
    /\ ~TileErrored(<<"B">>) /\ <<"split", <<"B">>>> \in entered
    /\ \A i \in ImagesOf(<<"B">>) : ~pimages[i].errors.some /\ pimages[i].band_file_list # <<>>

\* The first run left every output it returned on disk, one band file per
\* band of the manifest.
FirstRunComplete ==
    /\ first # <<>>
    /\ \A i \in 1..Len(first.tiles) : first.tiles[i].last_processed_fp.v \in first.files
    /\ \A img \in first.images :
        /\ img.merge_img_fp.v \in first.files
        /\ Len(img.band_file_list) = Len(units[img.image_folder[1]].manifest.bands)
        /\ \A k \in 1..Len(img.band_file_list) : img.band_file_list[k] \in first.files

\* C6: a second run of the pipeline with overwrite off makes no external
\* call, reports no error, and leaves every tile and image with the output
\* paths of the first run: last-processed path, merged path, per-band list.
C6_SecondRunSkipsAndKeepsPaths ==
    (run = 2 /\ ppc = "done" /\ ~pcfg.overwrite /\ FirstRunComplete) =>
        /\ calls = {}
        /\ \A i \in 1..Len(ptiles) :
            /\ ~ptiles[i].errors.some
            /\ ptiles[i].last_processed_fp = first.tiles[i].last_processed_fp
        /\ \A i \in 1..Len(pimages) :
            /\ ~pimages[i].errors.some
            /\ \E img \in first.images :
                /\ img.image_folder = pimages[i].image_folder
                /\ img.merge_img_fp = pimages[i].merge_img_fp
                /\ img.band_file_list = pimages[i].band_file_list

\* -------------------------------------------------- stages alone, claims
Returned(stage) == scall.stage = stage /\ sres # NoResult
PshOut == output_psh_path(scall.tile, scall.method)

\* C12: when the pansharpen output exists and overwrite is off, pansharpen
\* calls no backend, leaves the disk as it is and returns the output path
\* with no error, whatever the method.
C12_ExistingOutputSkipped ==
    (Returned("pansharpen") /\ ~scall.overwrite /\ PshOut \in scall.fs) =>
        /\ sres.ret = "tuple" /\ sres.path = PshOut
        /\ ~Reported(sres.errors)
        /\ sres.calls = {} /\ sres.files = scall.fs

\* The failure outcomes of a pansharpen call: both inputs missing, or, when
\* the call is not a skip, the OTB backend raising RuntimeError, the numpy
\* backend failing to import, a method that is not implemented, or no
\* output file after the call.
PshSkipped == PshOut \in scall.fs /\ ~scall.overwrite
PshInputsMissing ==
    /\ UnitPath(scall.tile, scall.tile.mul_tile.v) \notin scall.fs
    /\ UnitPath(scall.tile, scall.tile.pan_tile.v) \notin scall.fs
PshFailed ==
    \/ PshInputsMissing
    \/ /\ ~PshSkipped
       /\ \/ scall.method = "otb-bayes" /\ ~scall.dry_run /\ scall.env = "RuntimeError"
          \/ scall.method = "brovey" /\ scall.env = "ImportError"
          \/ scall.method = "nearest"
          \/ PshOut \notin sres.files

\* C13: on every failure outcome pansharpen returns a result that carries a
\* non-empty error.
C13_FailureCarriesError ==
    (Returned("pansharpen") /\ PshFailed) =>
        sres.ret = "tuple" /\ Reported(sres.errors)

\* C14: when gdal_split_band reports no error it returns exactly one path
\* per band of the manifest, in manifest order, whether or not band files
\* were on disk before the call.
C14_OnePathPerBand ==
    (Returned("split") /\ sres.ret = "tuple" /\ ~Reported(sres.errors)) =>
        sres.path = [k \in 1..Len(scall.manifest.bands) |->
                        BandFile(scall.image, scall.manifest.bands[k])]

\* C15: when the manifest is missing or cannot be parsed, gdal_split_band
\* returns the failure as an error value; no exception leaves the step.
C15_BadManifestIsErrorValue ==
    (Returned("split") /\ scall.manifest.state # "parsed") =>
        sres.ret = "tuple" /\ Reported(sres.errors)

\* The same pansharpen call in a normal run whose backend works, and whether
\* a call ends on a success: a returned path with no error.
PshNormalRun ==
    pansharpen(scall.tile, scall.method, FALSE, scall.overwrite, scall.fs, "ok")
Succeeded(result) == result.ret = "tuple" /\ ~Reported(result.errors)

\* C16: in a dry run no stage invokes its external call (pansharpen backend,
\* 8-bit rescale, tile merge, band split), and pansharpen decides as in a
\* normal run: it ends on a success exactly when the normal run of the same
\* call does, so that the steps after it are planned the same.
C16_DryRunCallsNothing ==
    (sres # NoResult /\ scall.dry_run) =>
        /\ sres.calls = {}
        /\ scall.stage = "pansharpen" => Succeeded(sres) = Succeeded(PshNormalRun)

\* The files of the prep folder of the i-th tile handed to the deletion
\* step, before the call, and whether its image is in error for the step:
\* one of its four band files is not there.
PrepBefore(i) == lst_img(scall.args[i], scall.fs)
ImageInError(i) == BandsMissing(scall.args[i], scall.fs) # {}

C18_RunReachesItsEnd ==
    Returned("main") => sres.ret = "None"

\* C24: when pansharpen has run its backend, nothing failed and the output
\* is there, the error it returns is falsy, as on the skip path.
C24_SuccessReturnsFalsyError ==
    (/\ Returned("pansharpen") /\ sres.ret = "tuple" /\ sres.calls # {}
     /\ PshOut \in sres.files /\ ~Reported(sres.errors)) =>
        ~Truthy(sres.errors)

\* Both inputs of the pansharpen call are on disk.
PshInputsThere ==
    /\ UnitPath(scall.tile, scall.tile.mul_tile.v) \in scall.fs
    /\ UnitPath(scall.tile, scall.tile.pan_tile.v) \in scall.fs

\* C25: for every supported method, OTB or numeric, a call that is not a dry
\* run and whose backend completes on the two inputs without raising leaves
\* the raster at the output path and returns no error.
C25_MethodsInterchangeable ==
    (/\ Returned("pansharpen") /\ ~scall.dry_run /\ scall.method \in {"otb-bayes", "brovey"}
     /\ PshInputsThere /\ sres.calls # {} /\ scall.env = "ok") =>
        /\ sres.ret = "tuple" /\ sres.path = PshOut
        /\ PshOut \in sres.files
        /\ ~Reported(sres.errors)

\* The output paths a rescale, merge or split call returned, and whether one
\* of its external calls left no file at its output.
ReturnedPaths ==
    IF scall.stage = "split" THEN {sres.path[i] : i \in 1..Len(sres.path)} ELSE {sres.path}
OutputMissing == \E c \in sres.calls : c[2] \notin sres.files

\* C26: for the rescale, merge and split steps, a return with no error means
\* that every returned output path is a file on disk, and an external call
\* whose output file is not there afterwards (it raised, or it returned
\* without writing) gives a non-empty error.
C26_NoErrorMeansOutputExists ==
    (sres # NoResult /\ scall.stage \in {"rescale", "merge", "split"} /\ sres.ret = "tuple") =>
        /\ ~Reported(sres.errors) => ReturnedPaths \subseteq sres.files
        /\ OutputMissing => Reported(sres.errors)

\* C28: whenever at least one of the two inputs of pansharpen is missing (the
\* multispectral file alone, the panchromatic file alone, or both), the call
\* reports an error, that is, it does not end on a result without error, and
\* it invokes no backend.
C28_MissingInputCallsNoBackend ==
    (Returned("pansharpen") /\ ~PshInputsThere) =>
        /\ ~Succeeded(sres)
        /\ sres.calls = {}

====
